---- MODULE Spec2Model ----
(***************************************************************************)
(* Model of the rraft repository: the term-aware Machine of                *)
(* src/bin/raft.rs, the Emitter/Responder Machine of                       *)
(* src/bin/emit_respond.rs, and the discrete-event loop of main.           *)
(* Times are in milliseconds.  Option<T> is a sequence of length <= 1.     *)
(***************************************************************************)
EXTENDS Integers, Sequences, FiniteSets, TLC

VARIABLES
    bin,            \* which binary's Machine is exercised: "raft" | "emit_respond"
    machine,        \* the Machine under test: [role, last_tick, state]
    now,            \* the latest Instant handed to the Machine
    aborted,        \* TRUE once a todo!() has panicked: the process is gone
    call,           \* record of the last Machine call (which Role methods ran, what came back)
    message_queue,  \* main: BinaryHeap<TimedMessage>, kept as the sequence of its elements
    current_time,   \* main: current_time - start_time
    emitter,        \* main: the Machine built around Emitter 1
    responder,      \* main: the Machine built around Responder 2
    pc,             \* main: position in the loop body
    enqueued,       \* main: number of messages pushed on the queue so far
    delivered,      \* main: number of messages popped and handed to a handle
    last_pop        \* main: the last pop (its delivery_time, the time it was handed over,
                    \*       the delivery_time of the pop before it), None before the first

vars == <<bin, machine, now, aborted, call,
          message_queue, current_time, emitter, responder, pc, enqueued, delivered, last_pop>>

apiVars == <<bin, machine, now, aborted, call>>
simVars == <<message_queue, current_time, emitter, responder, pc, enqueued, delivered, last_pop>>

----------------------------------------------------------------------------
(* Bounds of the model *)

MaxTerm == 2        \* largest term a message carries / a node reaches
MaxLog == 1         \* largest log length and index carried by a message
MaxVotes == 1       \* largest votes_received a Candidate is constructed with
MaxId == 2          \* largest request id the environment sends
MaxSteps == 9       \* emit_respond Machine under test: clock advances at most this often
RaftMaxSteps == 1   \* raft Machine under test: clock advances at most this often
TimeQuantum == 250  \* one clock advance of a Machine under test, in ms

MsPerSec == 1000

None == <<>>
Some(x) == <<x>>
IsSome(o) == Len(o) = 1
Unwrap(o) == o[1]

Min(a, b) == IF a < b THEN a ELSE b

----------------------------------------------------------------------------
(* raft.rs: State, Message, HasTerm *)

SelfId == 1
PeerId == SelfId + 1

ElectionTimeoutMin == 150
ElectionTimeoutMax == 300
ElectionTimeouts == {ElectionTimeoutMin, ElectionTimeoutMax}

Terms == 0..MaxTerm

AppendEntryRequest(t, l, pli, plt, es, lc) ==
    [type |-> "AppendEntryRequest", term |-> t, leader_id |-> l,
     prev_log_index |-> pli, prev_log_term |-> plt, entries |-> es,
     leader_commit |-> lc]

AppendEntryResponse(t, ok, f) ==
    [type |-> "AppendEntryResponse", term |-> t, success |-> ok, from |-> f]

\* HasTerm::term
term(msg) == msg.term

\* The messages the environment sends.  A request is one a leader of term t
\* can form: the entry before the new ones is the sentinel (index 0, term 0)
\* or an entry of a term in 1..t, and new entries are of term t.  Nothing
\* relates it to the receiver's log or term.
RequestsOf(t) ==
    { AppendEntryRequest(t, PeerId, p[1], p[2], es, lc) :
        p \in {<<0, 0>>} \cup ((1..MaxLog) \X (1..t)),
        es \in {<<>>} \cup (IF t >= 1 THEN {<<t>>} ELSE {}),
        lc \in 0..MaxLog }

RaftMessages ==
    UNION { RequestsOf(t) : t \in Terms }
    \cup { AppendEntryResponse(t, ok, PeerId) : t \in Terms, ok \in BOOLEAN }

\* Machine::new's State
NewState ==
    [current_term |-> 0, voted_for |-> None, log |-> <<>>,
     commit_index |-> 0, last_applied |-> 0, n_nodes |-> 0]

Candidate(votes, started) ==
    [kind |-> "Candidate", votes_received |-> votes, election_started |-> started]

Follower(deadline) ==
    [kind |-> "Follower", electionDeadline |-> deadline]

\* One invocation of a Role method, with the term it found on entry.
Invoked(kind, fn, s) == [role |-> kind, fn |-> fn, term |-> s.current_term]

----------------------------------------------------------------------------
(* raft.rs: impl Role for Candidate *)

\* Candidate::transition that returns the Follower but forgets
\* `s.current_term = term`.
Candidate_transition_KeepTerm(self, msg, at, s, timeout) ==
    IF term(msg) > s.current_term
    THEN [new_role |-> Some(Follower(at + timeout)), state |-> s, panicked |-> FALSE]
    ELSE [new_role |-> None, state |-> s, panicked |-> FALSE]

\* Candidate::transition: a strictly higher term is adopted and a Follower
\* returned.  `Follower {}` is built here; its election deadline is armed on
\* entry (spec 4.2) with the timeout drawn for this call.
Candidate_transition(self, msg, at, s, timeout) ==
    IF term(msg) > s.current_term
    THEN [new_role |-> Some(Follower(at + timeout)),
          state |-> [s EXCEPT !.current_term = term(msg)],
          panicked |-> FALSE]
    ELSE [new_role |-> None, state |-> s, panicked |-> FALSE]

\* Candidate::handle: todo!()
Candidate_handle(self, msg, at, s) ==
    [role |-> self, state |-> s, out |-> <<>>, panicked |-> TRUE]

\* Candidate::tick: todo!()
Candidate_tick(self, at, s) ==
    [new_role |-> None, role |-> self, state |-> s, panicked |-> TRUE]

\* Candidate::tick_msg: todo!()
Candidate_tick_msg(self, at, s) ==
    [role |-> self, state |-> s, out |-> <<>>, panicked |-> TRUE]

----------------------------------------------------------------------------
(* Follower: named by Candidate::transition, its impl Role is not in the    *)
(* sources; modelled from spec 4.1 and 4.2 over raft.rs's Message.          *)

\* First position of `es` that is past the end of `log` or conflicts with it,
\* when `es` is laid down after index `pli`; Len(es) + 1 if there is none.
RECURSIVE FirstNew(_, _, _, _)
FirstNew(log, pli, es, i) ==
    IF i > Len(es) THEN i
    ELSE IF pli + i > Len(log) \/ log[pli + i] # es[i] THEN i
    ELSE FirstNew(log, pli, es, i + 1)

\* Truncate the conflicting suffix, then append the incoming entries.
MergeEntries(log, pli, es) ==
    LET i == FirstNew(log, pli, es, 1)
    IN IF i > Len(es) THEN log
       ELSE SubSeq(log, 1, pli + i - 1) \o SubSeq(es, i, Len(es))

\* Follower::transition that, on a higher-term request, adopts the request's
\* prev_log_term in place of its term.
Follower_transition_WrongField(self, msg, at, s) ==
    [new_role |-> None,
     state |-> IF term(msg) > s.current_term
               THEN [s EXCEPT !.current_term =
                        IF msg.type = "AppendEntryRequest"
                        THEN msg.prev_log_term ELSE term(msg)]
               ELSE s,
     panicked |-> FALSE]

\* Follower::transition: adopt a higher term, stay Follower.
Follower_transition(self, msg, at, s) ==
    [new_role |-> None,
     state |-> IF term(msg) > s.current_term
               THEN [s EXCEPT !.current_term = term(msg)] ELSE s,
     panicked |-> FALSE]

\* Follower::handle
Follower_handle(self, msg, at, s, timeout) ==
    IF msg.type = "AppendEntryRequest"
    THEN LET ok == \/ msg.prev_log_index = 0
                   \/ /\ msg.prev_log_index <= Len(s.log)
                      /\ s.log[msg.prev_log_index] = msg.prev_log_term
             newlog == MergeEntries(s.log, msg.prev_log_index, msg.entries)
         IN [role |-> Follower(at + timeout),
             state |-> IF ok
                       THEN [s EXCEPT !.log = newlog,
                                      !.commit_index = Min(msg.leader_commit, Len(newlog))]
                       ELSE s,
             out |-> <<AppendEntryResponse(s.current_term, ok, SelfId)>>,
             panicked |-> FALSE]
    ELSE [role |-> self, state |-> s, out |-> <<>>, panicked |-> FALSE]

\* Follower::tick: on election timeout enter Candidate (spec 4.3 "On entry").
Follower_tick(self, at, s) ==
    IF at >= self.electionDeadline
    THEN [new_role |-> Some(Candidate(1, at)), role |-> self,
          state |-> [s EXCEPT !.current_term = s.current_term + 1,
                              !.voted_for = Some(SelfId)],
          panicked |-> FALSE]
    ELSE [new_role |-> None, role |-> self, state |-> s, panicked |-> FALSE]

\* Follower::tick_msg: no periodic messages.
Follower_tick_msg(self, at, s) ==
    [role |-> self, state |-> s, out |-> <<>>, panicked |-> FALSE]

----------------------------------------------------------------------------
(* raft.rs: trait Role (dynamic dispatch on the installed role) *)

Role_transition(self, msg, at, s, timeout) ==
    IF self.kind = "Candidate" THEN Candidate_transition(self, msg, at, s, timeout)
    ELSE Follower_transition(self, msg, at, s)

Role_handle(self, msg, at, s, timeout) ==
    IF self.kind = "Candidate" THEN Candidate_handle(self, msg, at, s)
    ELSE Follower_handle(self, msg, at, s, timeout)

Role_tick(self, at, s) ==
    IF self.kind = "Candidate" THEN Candidate_tick(self, at, s)
    ELSE Follower_tick(self, at, s)

Role_tick_msg(self, at, s) ==
    IF self.kind = "Candidate" THEN Candidate_tick_msg(self, at, s)
    ELSE Follower_tick_msg(self, at, s)

----------------------------------------------------------------------------
(* raft.rs: Machine *)

\* Machine::new
Machine_new(role) == [role |-> role, last_tick |-> 0, state |-> NewState]

\* Machine::tick
Machine_tick(m, at) ==
    LET t == Role_tick(m.role, at, m.state)
        called1 == <<Invoked(m.role.kind, "tick", m.state)>>
    IN IF t.panicked
       THEN [machine |-> m, out |-> <<>>, trace |-> called1, panicked |-> TRUE]
       ELSE LET role1 == IF IsSome(t.new_role) THEN Unwrap(t.new_role) ELSE t.role
                tm == Role_tick_msg(role1, at, t.state)
            IN [machine |-> [role |-> tm.role, last_tick |-> at, state |-> tm.state],
                out |-> tm.out,
                trace |-> Append(called1, Invoked(role1.kind, "tick_msg", t.state)),
                panicked |-> tm.panicked]

\* Machine::handle without the stale-term guard.
Machine_handle_NoGuard(m, msg, at, timeout) ==
    LET t == Role_transition(m.role, msg, at, m.state, timeout)
        called1 == <<Invoked(m.role.kind, "transition", m.state)>>
        role1 == IF IsSome(t.new_role) THEN Unwrap(t.new_role) ELSE m.role
        h == Role_handle(role1, msg, at, t.state, timeout)
    IN [machine |-> [m EXCEPT !.role = h.role, !.state = h.state],
        out |-> h.out,
        trace |-> Append(called1, Invoked(role1.kind, "handle", t.state)),
        panicked |-> h.panicked]

\* Machine::handle
Machine_handle(m, msg, at, timeout) ==
    IF m.state.current_term > term(msg)
    THEN [machine |-> m, out |-> <<>>, trace |-> <<>>, panicked |-> FALSE]
    ELSE LET t == Role_transition(m.role, msg, at, m.state, timeout)
             called1 == <<Invoked(m.role.kind, "transition", m.state)>>
             role1 == IF IsSome(t.new_role) THEN Unwrap(t.new_role) ELSE m.role
             h == Role_handle(role1, msg, at, t.state, timeout)
         IN [machine |-> [m EXCEPT !.role = h.role, !.state = h.state],
             out |-> h.out,
             trace |-> Append(called1, Invoked(role1.kind, "handle", t.state)),
             panicked |-> h.panicked]

----------------------------------------------------------------------------
(* emit_respond.rs: Message, Emitter, Responder *)

Request(id, data) == [type |-> "Request", id |-> id, data |-> data]
Response(id, data) == [type |-> "Response", id |-> id, data |-> data]

Datas == {"ping", "emit", "other"}

ERMessages ==
    { Request(i, d) : i \in 1..MaxId, d \in Datas }
    \cup { Response(i, d) : i \in 1..MaxId, d \in Datas }

\* Duration::as_secs: whole seconds, the fraction dropped.
as_secs(d) == d \div MsPerSec

\* Duration::from_secs
from_secs(n) == n * MsPerSec

\* One invocation of a Role method of emit_respond.rs.
ER_Invoked(kind, fn) == [role |-> kind, fn |-> fn]

\* Emitter::new
Emitter_new(id, at, duration_secs) ==
    [kind |-> "Emitter", id |-> id, counter |-> 0,
     stop_at |-> IF IsSome(duration_secs)
                 THEN Some(at + from_secs(Unwrap(duration_secs))) ELSE None,
     last_emit |-> at]

\* Responder::new
Responder_new(id) == [kind |-> "Responder", id |-> id]

\* Emitter::transition
Emitter_transition(self, msg, at) == None

\* Emitter::handle
Emitter_handle(self, msg, at) == [role |-> self, out |-> <<>>]

\* Emitter::tick that stops only after stop_at has passed (`>` for `>=`).
Emitter_tick_Strict(self, at) ==
    IF IsSome(self.stop_at) /\ at > Unwrap(self.stop_at)
    THEN Some(Responder_new(self.id))
    ELSE None

\* Emitter::tick that builds the Responder from the counter, not the id.
Emitter_tick_WrongId(self, at) ==
    IF IsSome(self.stop_at) /\ at >= Unwrap(self.stop_at)
    THEN Some(Responder_new(self.counter))
    ELSE None

\* Emitter::tick
Emitter_tick(self, at) ==
    IF IsSome(self.stop_at) /\ at >= Unwrap(self.stop_at)
    THEN Some(Responder_new(self.id))
    ELSE None

\* Emitter::tick_msg that compares whole milliseconds, not whole seconds.
Emitter_tick_msg_Millis(self, at) ==
    IF at - self.last_emit >= 1
    THEN [role |-> [self EXCEPT !.last_emit = at, !.counter = self.counter + 1],
          out |-> <<Request(self.counter + 1, "ping")>>]
    ELSE [role |-> self, out |-> <<>>]

\* Emitter::tick_msg that numbers the ping before it increments the counter.
Emitter_tick_msg_IdBefore(self, at) ==
    IF as_secs(at - self.last_emit) >= 1
    THEN [role |-> [self EXCEPT !.last_emit = at, !.counter = self.counter + 1],
          out |-> <<Request(self.counter, "ping")>>]
    ELSE [role |-> self, out |-> <<>>]

\* Emitter::tick_msg
Emitter_tick_msg(self, at) ==
    IF as_secs(at - self.last_emit) >= 1
    THEN [role |-> [self EXCEPT !.last_emit = at, !.counter = self.counter + 1],
          out |-> <<Request(self.counter + 1, "ping")>>]
    ELSE [role |-> self, out |-> <<>>]

\* Responder::transition without the guard on the data.
Responder_transition_AnyRequest(self, msg, at) ==
    IF msg.type = "Request"
    THEN Some(Emitter_new(self.id, at, Some(2)))
    ELSE None

\* Responder::transition
Responder_transition(self, msg, at) ==
    IF msg.type = "Request" /\ msg.data = "emit"
    THEN Some(Emitter_new(self.id, at, Some(2)))
    ELSE None

\* Responder::handle without the `_ => vec![]` arm: a Response is echoed too.
Responder_handle_EchoAll(self, msg, at) ==
    [role |-> self, out |-> <<Response(msg.id, msg.data)>>]

\* Responder::handle
Responder_handle(self, msg, at) ==
    IF msg.type = "Request"
    THEN [role |-> self, out |-> <<Response(msg.id, msg.data)>>]
    ELSE [role |-> self, out |-> <<>>]

\* Responder::tick
Responder_tick(self, at) == None

\* Responder::tick_msg
Responder_tick_msg(self, at) == [role |-> self, out |-> <<>>]

(* emit_respond.rs: trait Role *)

ER_Role_transition(self, msg, at) ==
    IF self.kind = "Emitter" THEN Emitter_transition(self, msg, at)
    ELSE Responder_transition(self, msg, at)

ER_Role_handle(self, msg, at) ==
    IF self.kind = "Emitter" THEN Emitter_handle(self, msg, at)
    ELSE Responder_handle(self, msg, at)

ER_Role_tick(self, at) ==
    IF self.kind = "Emitter" THEN Emitter_tick(self, at)
    ELSE Responder_tick(self, at)

ER_Role_tick_msg(self, at) ==
    IF self.kind = "Emitter" THEN Emitter_tick_msg(self, at)
    ELSE Responder_tick_msg(self, at)

\* Role::id through Machine::id
ER_Machine_id(m) == m.role.id

(* emit_respond.rs: Machine *)

\* Machine::new
ER_Machine_new(role) == [role |-> role, last_tick |-> 0]

\* Machine::tick that asks the old role for its messages, then swaps.
ER_Machine_tick_MsgFirst(m, at) ==
    LET tm == ER_Role_tick_msg(m.role, at)
        new_role == ER_Role_tick(tm.role, at)
        role1 == IF IsSome(new_role) THEN Unwrap(new_role) ELSE tm.role
    IN [machine |-> [role |-> role1, last_tick |-> at],
        out |-> tm.out,
        trace |-> <<ER_Invoked(m.role.kind, "tick"), ER_Invoked(role1.kind, "tick_msg")>>,
        panicked |-> FALSE]

\* Machine::tick
ER_Machine_tick(m, at) ==
    LET new_role == ER_Role_tick(m.role, at)
        role1 == IF IsSome(new_role) THEN Unwrap(new_role) ELSE m.role
        tm == ER_Role_tick_msg(role1, at)
    IN [machine |-> [role |-> tm.role, last_tick |-> at],
        out |-> tm.out,
        trace |-> <<ER_Invoked(m.role.kind, "tick"), ER_Invoked(role1.kind, "tick_msg")>>,
        panicked |-> FALSE]

\* Machine::handle that lets the old role handle the message, then swaps.
ER_Machine_handle_HandleFirst(m, msg, at) ==
    LET h == ER_Role_handle(m.role, msg, at)
        new_role == ER_Role_transition(h.role, msg, at)
        role1 == IF IsSome(new_role) THEN Unwrap(new_role) ELSE h.role
    IN [machine |-> [m EXCEPT !.role = role1],
        out |-> h.out,
        trace |-> <<ER_Invoked(m.role.kind, "transition"), ER_Invoked(role1.kind, "handle")>>,
        panicked |-> FALSE]

\* Machine::handle
ER_Machine_handle(m, msg, at) ==
    LET new_role == ER_Role_transition(m.role, msg, at)
        role1 == IF IsSome(new_role) THEN Unwrap(new_role) ELSE m.role
        h == ER_Role_handle(role1, msg, at)
    IN [machine |-> [m EXCEPT !.role = h.role],
        out |-> h.out,
        trace |-> <<ER_Invoked(m.role.kind, "transition"), ER_Invoked(role1.kind, "handle")>>,
        panicked |-> FALSE]

----------------------------------------------------------------------------
(* emit_respond.rs: main (raft.rs's main is the same loop, line for line) *)

SimDuration == 30000
TickInterval == 10
NetworkLatency == 50

TimedMessage(t, f, to, msg) ==
    [delivery_time |-> t, from |-> f, to |-> to, message |-> msg]

\* Instant::cmp
Instant_cmp(a, b) == IF a < b THEN "Less" ELSE IF a = b THEN "Equal" ELSE "Greater"

\* impl Ord for TimedMessage: reversed, so that the max-heap yields the
\* earliest message.
TimedMessage_cmp(self, other) == Instant_cmp(other.delivery_time, self.delivery_time)

\* BinaryHeap::peek: the positions holding a greatest element under Ord.
\* Which of several equal ones is the root is not specified.
Peek(q) ==
    { i \in 1..Len(q) : \A j \in 1..Len(q) : TimedMessage_cmp(q[i], q[j]) # "Less" }

RemoveAt(q, i) == SubSeq(q, 1, i - 1) \o SubSeq(q, i + 1, Len(q))

\* message_queue.push for each message of `msgs`
RECURSIVE PushAll(_, _, _, _, _)
PushAll(q, msgs, t, f, to) ==
    IF msgs = <<>> THEN q
    ELSE PushAll(Append(q, TimedMessage(t, f, to, Head(msgs))), Tail(msgs), t, f, to)

\* The break test with its comparison the wrong way round.
Due_Flipped(tm, t) == ~(tm.delivery_time < t)

\* `if timed_msg.delivery_time > current_time { break; }`
Due(tm, t) == ~(tm.delivery_time > t)

SimStart ==
    /\ message_queue = <<>>
    /\ current_time = 0
    /\ emitter = ER_Machine_new(Emitter_new(1, 0, None))
    /\ responder = ER_Machine_new(Responder_new(2))
    /\ pc = "deliver"
    /\ enqueued = 0
    /\ delivered = 0
    /\ last_pop = None

\* Inner loop body: pop the earliest due message, route it, queue the responses.
Sim_Deliver ==
    /\ pc = "deliver"
    /\ \E i \in Peek(message_queue) :
        /\ Due(message_queue[i], current_time)
        /\ LET msg == message_queue[i]
               rest == RemoveAt(message_queue, i)
               to_emitter == msg.to = ER_Machine_id(emitter)
               r == IF to_emitter
                    THEN ER_Machine_handle(emitter, msg.message, current_time)
                    ELSE ER_Machine_handle(responder, msg.message, current_time)
           IN /\ emitter' = IF to_emitter THEN r.machine ELSE emitter
              /\ responder' = IF to_emitter THEN responder ELSE r.machine
              /\ message_queue' =
                    PushAll(rest, r.out, current_time + NetworkLatency, msg.to, msg.from)
              /\ enqueued' = enqueued + Len(r.out)
              /\ delivered' = delivered + 1
              /\ last_pop' = Some([delivery_time |-> msg.delivery_time,
                                   at |-> current_time,
                                   to |-> msg.to,
                                   prev |-> IF IsSome(last_pop)
                                            THEN Unwrap(last_pop).delivery_time ELSE 0])
    /\ UNCHANGED <<current_time, pc>>
    /\ UNCHANGED apiVars

\* Inner loop exit: the queue is empty or its earliest message is not due.
Sim_Break ==
    /\ pc = "deliver"
    /\ \A i \in Peek(message_queue) : ~Due(message_queue[i], current_time)
    /\ pc' = "tick_emitter"
    /\ UNCHANGED <<message_queue, current_time, emitter, responder, enqueued, delivered, last_pop>>
    /\ UNCHANGED apiVars

Sim_TickEmitter ==
    /\ pc = "tick_emitter"
    /\ LET r == ER_Machine_tick(emitter, current_time)
       IN /\ emitter' = r.machine
          /\ message_queue' =
                PushAll(message_queue, r.out, current_time + NetworkLatency,
                        ER_Machine_id(r.machine), ER_Machine_id(responder))
          /\ enqueued' = enqueued + Len(r.out)
    /\ pc' = "tick_responder"
    /\ UNCHANGED <<current_time, responder, delivered, last_pop>>
    /\ UNCHANGED apiVars

Sim_TickResponder ==
    /\ pc = "tick_responder"
    /\ LET r == ER_Machine_tick(responder, current_time)
       IN /\ responder' = r.machine
          /\ message_queue' =
                PushAll(message_queue, r.out, current_time + NetworkLatency,
                        ER_Machine_id(r.machine), ER_Machine_id(emitter))
          /\ enqueued' = enqueued + Len(r.out)
    /\ pc' = "advance"
    /\ UNCHANGED <<current_time, emitter, delivered, last_pop>>
    /\ UNCHANGED apiVars

\* `current_time += tick_interval`, then the outer loop's condition.
\* The end of the loop body without `current_time += tick_interval`.
Sim_Advance_NoStep ==
    /\ pc = "advance"
    /\ current_time' = current_time
    /\ pc' = IF current_time' < SimDuration THEN "deliver" ELSE "done"
    /\ UNCHANGED <<message_queue, emitter, responder, enqueued, delivered, last_pop>>
    /\ UNCHANGED apiVars

Sim_Advance ==
    /\ pc = "advance"
    /\ current_time' = current_time + TickInterval
    /\ pc' = IF current_time' < SimDuration THEN "deliver" ELSE "done"
    /\ UNCHANGED <<message_queue, emitter, responder, enqueued, delivered, last_pop>>
    /\ UNCHANGED apiVars

SimNext ==
    \/ Sim_Deliver
    \/ Sim_Break
    \/ Sim_TickEmitter
    \/ Sim_TickResponder
    \/ Sim_Advance

----------------------------------------------------------------------------
(* The Machine under test: any role handed to Machine::new, then any        *)
(* sequence of handle and tick calls at non-decreasing Instants.            *)

NodeIds == {1, 2}

\* The Instants a call may carry: the clock stands or advances one quantum.
Horizon == (IF bin = "raft" THEN RaftMaxSteps ELSE MaxSteps) * TimeQuantum

NextTimes == { t \in {now, now + TimeQuantum} : t <= Horizon }

Header(msg) == [type |-> msg.type, term |-> msg.term]

\* What the last call found: the installed role's kind, the term (raft.rs)
\* and the role's fields (emit_respond.rs).
Before(m) ==
    [kind |-> m.role.kind,
     term |-> IF bin = "raft" THEN m.state.current_term ELSE 0,
     role |-> IF bin = "raft" THEN None ELSE Some(m.role)]

ApiInit ==
    /\ bin \in {"raft", "emit_respond"}
    /\ machine \in
         IF bin = "raft"
         THEN { Machine_new(r) :
                  r \in { Candidate(v, 0) : v \in 0..MaxVotes }
                        \cup { Follower(t) : t \in ElectionTimeouts } }
         ELSE { ER_Machine_new(r) :
                  r \in { Emitter_new(i, 0, d) : i \in NodeIds, d \in {None, Some(2)} }
                        \cup { Responder_new(i) : i \in NodeIds } }
    /\ now = 0
    /\ aborted = FALSE
    /\ call = [op |-> "new", msg |-> None, before |-> Before(machine),
               trace |-> <<>>, out |-> <<>>, panicked |-> FALSE]

\* raft.rs: machine.handle(msg, at)
Handle ==
    /\ bin = "raft"
    /\ ~aborted
    /\ \E msg \in RaftMessages, at \in NextTimes, timeout \in ElectionTimeouts :
        LET r == Machine_handle(machine, msg, at, timeout)
        IN /\ machine' = r.machine
           /\ now' = at
           /\ aborted' = r.panicked
           /\ call' = [op |-> "handle", msg |-> Some(Header(msg)),
                       before |-> Before(machine), trace |-> r.trace,
                       out |-> r.out, panicked |-> r.panicked]
    /\ UNCHANGED bin
    /\ UNCHANGED simVars

\* raft.rs: machine.tick(at)
Tick ==
    /\ bin = "raft"
    /\ ~aborted
    /\ machine.state.current_term < MaxTerm
    /\ \E at \in NextTimes :
        LET r == Machine_tick(machine, at)
        IN /\ machine' = r.machine
           /\ now' = at
           /\ aborted' = r.panicked
           /\ call' = [op |-> "tick", msg |-> None,
                       before |-> Before(machine), trace |-> r.trace,
                       out |-> r.out, panicked |-> r.panicked]
    /\ UNCHANGED bin
    /\ UNCHANGED simVars

\* emit_respond.rs: machine.handle(msg, at)
ER_Handle ==
    /\ bin = "emit_respond"
    /\ \E msg \in ERMessages, at \in NextTimes :
        LET r == ER_Machine_handle(machine, msg, at)
        IN /\ machine' = r.machine
           /\ now' = at
           /\ call' = [op |-> "handle", msg |-> Some(msg),
                       before |-> Before(machine), trace |-> r.trace,
                       out |-> r.out, panicked |-> FALSE]
    /\ UNCHANGED <<bin, aborted>>
    /\ UNCHANGED simVars

\* emit_respond.rs: machine.tick(at)
ER_Tick ==
    /\ bin = "emit_respond"
    /\ \E at \in NextTimes :
        LET r == ER_Machine_tick(machine, at)
        IN /\ machine' = r.machine
           /\ now' = at
           /\ call' = [op |-> "tick", msg |-> None,
                       before |-> Before(machine), trace |-> r.trace,
                       out |-> r.out, panicked |-> FALSE]
    /\ UNCHANGED <<bin, aborted>>
    /\ UNCHANGED simVars

Init == ApiInit /\ SimStart

Next == Handle \/ Tick \/ ER_Handle \/ ER_Tick

Spec == Init /\ [][Next]_vars

\* The simulation of main: the Machine under test is not used.
SimInit ==
    /\ bin = "emit_respond"
    /\ machine = ER_Machine_new(Responder_new(2))
    /\ now = 0
    /\ aborted = FALSE
    /\ call = [op |-> "new", msg |-> None, before |-> Before(machine),
               trace |-> <<>>, out |-> <<>>, panicked |-> FALSE]
    /\ SimStart

SimSpec == SimInit /\ [][SimNext]_vars

\* main runs on one thread to its end: a statement that can run does run.
FairSimSpec == SimSpec /\ WF_vars(SimNext)

----------------------------------------------------------------------------
(* Properties *)

IsRaftHandle == bin = "raft" /\ call.op = "handle"
IsRaftTick == bin = "raft" /\ call.op = "tick"
IsERHandle == bin = "emit_respond" /\ call.op = "handle"
IsERTick == bin = "emit_respond" /\ call.op = "tick"

\* The message of the last handle call (raft.rs: its type and term).
Msg == Unwrap(call.msg)

\* C1: a message whose term is below currentTerm is dropped: handle returns
\* no messages, no Role method runs, and the installed role and every field
\* of the State are as before the call.
C1_StaleDrop ==
    [][ (/\ bin = "raft"
         /\ call'.op = "handle"
         /\ Unwrap(call'.msg).term < machine.state.current_term)
        => (/\ call'.out = <<>>
            /\ call'.trace = <<>>
            /\ ~call'.panicked
            /\ machine'.role = machine.role
            /\ machine'.state = machine.state) ]_vars

\* A stale message was delivered to a node that holds a log entry.
C1_Witness ==
    /\ IsRaftHandle
    /\ Msg.term < call.before.term
    /\ call.trace = <<>>
    /\ machine.state.log # <<>>

\* C2: a Candidate delivered a message of a higher term adopts exactly that
\* term and becomes Follower in transition, and handle then runs on the
\* Follower, which already sees the new term.
C2_CandidateStepsDown ==
    (IsRaftHandle /\ call.before.kind = "Candidate" /\ Msg.term > call.before.term)
    => /\ call.trace =
            << [role |-> "Candidate", fn |-> "transition", term |-> call.before.term],
               [role |-> "Follower", fn |-> "handle", term |-> Msg.term] >>
       /\ machine.role.kind = "Follower"
       /\ machine.state.current_term = Msg.term

\* A Candidate was delivered a message of a higher term.
C2_Witness ==
    /\ IsRaftHandle
    /\ call.before.kind = "Candidate"
    /\ Msg.term > call.before.term
    /\ machine.role.kind = "Follower"

\* C3: currentTerm never decreases from one state to the next.
C3_TermMonotone ==
    [][ bin = "raft" => machine'.state.current_term >= machine.state.current_term ]_vars

\* A call raised the term of a node that was already past term 0.
C3_Witness ==
    /\ bin = "raft"
    /\ call.before.term > 0
    /\ machine.state.current_term > call.before.term

\* C4: a Candidate delivered an AppendEntryRequest of its own term is a
\* Follower after the delivery.
C4_EqualTermStepDown ==
    (/\ IsRaftHandle
     /\ call.before.kind = "Candidate"
     /\ Msg.type = "AppendEntryRequest"
     /\ Msg.term = call.before.term)
    => machine.role.kind = "Follower"

\* C5: every handle and tick call completes and returns its messages; none
\* ends in an unimplemented placeholder.
C5_Total == ~aborted /\ ~call.panicked

\* C6: handle applies the stale-term guard, then the installed role's
\* transition, then the swap, then handle on the role installed after the
\* swap, and returns that handle's messages.
C6_DeliverOrder ==
    /\ IsERHandle =>
        LET b == Unwrap(call.before.role)
            emit == b.kind = "Responder" /\ Msg.type = "Request" /\ Msg.data = "emit"
        IN /\ machine.role.kind = IF emit \/ b.kind = "Emitter" THEN "Emitter" ELSE "Responder"
           /\ call.trace = << [role |-> b.kind, fn |-> "transition"],
                              [role |-> machine.role.kind, fn |-> "handle"] >>
           /\ call.out = IF machine.role.kind = "Responder" /\ Msg.type = "Request"
                         THEN <<Response(Msg.id, Msg.data)>>
                         ELSE <<>>
    /\ IsRaftHandle =>
        IF Msg.term < call.before.term
        THEN call.trace = <<>> /\ call.out = <<>>
        ELSE LET stepdown == call.before.kind = "Candidate" /\ Msg.term > call.before.term
                 handler == IF stepdown THEN "Follower" ELSE call.before.kind
             IN /\ machine.role.kind = handler
                /\ call.trace =
                     << [role |-> call.before.kind, fn |-> "transition",
                         term |-> call.before.term],
                        [role |-> handler, fn |-> "handle",
                         term |-> machine.state.current_term] >>
                /\ handler = "Candidate" => call.panicked /\ call.out = <<>>
                /\ handler = "Follower" =>
                     /\ ~call.panicked
                     /\ IF Msg.type = "AppendEntryRequest"
                        THEN /\ Len(call.out) = 1
                             /\ call.out[1].type = "AppendEntryResponse"
                             /\ call.out[1].term = machine.state.current_term
                             /\ call.out[1].from = SelfId
                        ELSE call.out = <<>>

\* A Responder was delivered the "emit" request: the Emitter it became
\* handled it and returned nothing.
C6_Witness ==
    /\ IsERHandle
    /\ call.before.kind = "Responder"
    /\ Msg.type = "Request" /\ Msg.data = "emit"
    /\ machine.role.kind = "Emitter"
    /\ call.out = <<>>

\* C7: tick calls the installed role's tick, swaps the role if one is
\* returned, then calls tick_msg on the role installed after the swap and
\* returns its messages; a role replaced during a tick emits nothing in it.
C7_TickOrder ==
    /\ IsERTick =>
        LET b == Unwrap(call.before.role)
            replaced == /\ b.kind = "Emitter"
                        /\ IsSome(b.stop_at)
                        /\ now >= Unwrap(b.stop_at)
        IN /\ machine.role.kind = IF replaced THEN "Responder" ELSE b.kind
           /\ call.trace = << [role |-> b.kind, fn |-> "tick"],
                              [role |-> machine.role.kind, fn |-> "tick_msg"] >>
           /\ machine.role.kind = "Responder" => call.out = <<>>
           /\ machine.role.kind = "Emitter" =>
                call.out = IF now - b.last_emit >= MsPerSec
                           THEN <<Request(b.counter + 1, "ping")>> ELSE <<>>
    /\ IsRaftTick =>
        IF call.before.kind = "Candidate"
        THEN /\ call.panicked
             /\ call.trace = << [role |-> "Candidate", fn |-> "tick",
                                 term |-> call.before.term] >>
        ELSE /\ call.trace =
                  << [role |-> "Follower", fn |-> "tick", term |-> call.before.term],
                     [role |-> machine.role.kind, fn |-> "tick_msg",
                      term |-> machine.state.current_term] >>
             /\ call.out = <<>>
             /\ call.panicked <=> machine.role.kind = "Candidate"

\* An Emitter whose next ping was due was replaced by a Responder in a tick,
\* and the tick returned nothing.
C7_Witness ==
    /\ IsERTick
    /\ call.before.kind = "Emitter"
    /\ now - Unwrap(call.before.role).last_emit >= MsPerSec
    /\ machine.role.kind = "Responder"
    /\ call.out = <<>>

\* C9: a Candidate that has handled a message is Leader exactly when its
\* votes (its own included) exceed clusterSize / 2 in integer division.
C9_QuorumLeader ==
    (IsRaftHandle /\ call.before.kind = "Candidate" /\ Msg.term = call.before.term)
    => IF machine.role.kind = "Candidate"
       THEN ~(machine.role.votes_received > machine.state.n_nodes \div 2)
       ELSE machine.role.kind = "Leader"

\* C10: when the simulation ends every message that was enqueued has been
\* popped and handed to a machine's handle; none is left in the queue.
C10_AllDelivered ==
    pc = "done" => (message_queue = <<>> /\ delivered = enqueued)

\* The simulation has ended after delivering pings and their echoes.
C10_Witness ==
    /\ pc = "done"
    /\ delivered > 1
    /\ emitter.role.counter > 1

RoleBefore == Unwrap(call.before.role)

\* C13 (as stated): a Responder delivered a Request with any id and any data
\* returns exactly one Response with that id and data; delivered a Response
\* it returns nothing.
C13_EchoAnyData ==
    (IsERHandle /\ RoleBefore.kind = "Responder") =>
        IF Msg.type = "Request"
        THEN call.out = <<Response(Msg.id, Msg.data)>>
        ELSE call.out = <<>>

\* C13 (amended): a Responder delivered a Request whose data is not "emit"
\* returns exactly one Response with that id and data; delivered a Request
\* "emit" it becomes an Emitter and returns nothing; delivered a Response it
\* returns nothing.
C13_Echo ==
    (IsERHandle /\ RoleBefore.kind = "Responder") =>
        IF Msg.type = "Request" /\ Msg.data # "emit"
        THEN call.out = <<Response(Msg.id, Msg.data)>>
        ELSE call.out = <<>>

\* A Responder has echoed a Request.
C13_Witness ==
    /\ IsERHandle
    /\ RoleBefore.kind = "Responder"
    /\ Msg.type = "Request"
    /\ Msg.data = "other"
    /\ call.out = <<Response(Msg.id, "other")>>

\* C14: a Responder delivered Request "emit" at time t becomes an Emitter
\* with stop time t + 2 s; no other message changes a Responder, no message
\* changes an Emitter; a tick before the stop time leaves the Emitter
\* installed, a tick at or after it installs a Responder; a tick leaves a
\* Responder a Responder.
C14_TemporaryEmitter ==
    /\ (IsERHandle /\ RoleBefore.kind = "Responder") =>
          IF Msg.type = "Request" /\ Msg.data = "emit"
          THEN machine.role = [kind |-> "Emitter", id |-> RoleBefore.id,
                               counter |-> 0,
                               stop_at |-> Some(now + from_secs(2)),
                               last_emit |-> now]
          ELSE machine.role = RoleBefore
    /\ (IsERHandle /\ RoleBefore.kind = "Emitter") => machine.role = RoleBefore
    /\ (IsERTick /\ RoleBefore.kind = "Emitter" /\ IsSome(RoleBefore.stop_at)) =>
          IF now < Unwrap(RoleBefore.stop_at)
          THEN /\ machine.role.kind = "Emitter"
               /\ machine.role.stop_at = RoleBefore.stop_at
          ELSE machine.role = [kind |-> "Responder", id |-> RoleBefore.id]
    /\ (IsERTick /\ RoleBefore.kind = "Responder") => machine.role = RoleBefore

\* An Emitter made by an "emit" Request delivered after time 0 has been
\* ticked at its stop time or later and is a Responder again.
C14_Witness ==
    /\ IsERTick
    /\ RoleBefore.kind = "Emitter"
    /\ IsSome(RoleBefore.stop_at)
    /\ Unwrap(RoleBefore.stop_at) > from_secs(2)
    /\ now >= Unwrap(RoleBefore.stop_at)
    /\ machine.role.kind = "Responder"

\* The tick replaces the Emitter: its stop time has come.
Replaced == IsSome(RoleBefore.stop_at) /\ now >= Unwrap(RoleBefore.stop_at)

\* C15 (as stated): a machine in the Emitter role emits a ping on a tick
\* exactly when a whole second has passed since its last emission or its
\* creation; the ping carries the next id.
C15_EmitWheneverDue ==
    (IsERTick /\ RoleBefore.kind = "Emitter") =>
        /\ call.out # <<>> <=> now - RoleBefore.last_emit >= MsPerSec
        /\ call.out # <<>> =>
              call.out = <<Request(RoleBefore.counter + 1, "ping")>>

\* C15 (amended): a machine in the Emitter role emits a ping on a tick
\* exactly when a whole second has passed since its last emission or its
\* creation and the tick does not replace the Emitter; the ping carries the
\* next id (counter + 1, the counter starting at 0 and counting the pings),
\* and the time of the emission becomes the new last emission.
C15_EmitRate ==
    (IsERTick /\ RoleBefore.kind = "Emitter") =>
        /\ call.out # <<>> <=>
              (~Replaced /\ now - RoleBefore.last_emit >= MsPerSec)
        /\ call.out # <<>> =>
              /\ call.out = <<Request(RoleBefore.counter + 1, "ping")>>
              /\ machine.role = [RoleBefore EXCEPT !.counter = RoleBefore.counter + 1,
                                                   !.last_emit = now]
        /\ (call.out = <<>> /\ ~Replaced) => machine.role = RoleBefore

\* An Emitter has emitted its second ping, a second or more after its first.
C15_Witness ==
    /\ IsERTick
    /\ RoleBefore.kind = "Emitter"
    /\ RoleBefore.counter = 1
    /\ call.out = <<Request(2, "ping")>>
    /\ now - RoleBefore.last_emit >= MsPerSec

\* C16: every ping of an Emitter that has a stop time is its first: such an
\* Emitter never counts more than one ping.
C16_AtMostOnePing ==
    /\ (IsERTick /\ RoleBefore.kind = "Emitter" /\ IsSome(RoleBefore.stop_at)
          /\ call.out # <<>>) =>
          /\ RoleBefore.counter = 0
          /\ call.out = <<Request(1, "ping")>>
    /\ (bin = "emit_respond" /\ machine.role.kind = "Emitter"
          /\ IsSome(machine.role.stop_at)) => machine.role.counter <= 1

\* An Emitter made by an "emit" Request delivered after time 0 has emitted
\* once and is ticked a second or more after that ping: it emits nothing and
\* is replaced by a Responder.
C16_Witness ==
    /\ IsERTick
    /\ RoleBefore.kind = "Emitter"
    /\ IsSome(RoleBefore.stop_at)
    /\ Unwrap(RoleBefore.stop_at) > from_secs(2)
    /\ RoleBefore.counter = 1
    /\ now - RoleBefore.last_emit >= MsPerSec
    /\ call.out = <<>>
    /\ machine.role.kind = "Responder"

\* C17: no handle and no tick changes what Machine.id() returns.
C17_IdPreserved ==
    [][bin = "emit_respond" => ER_Machine_id(machine') = ER_Machine_id(machine)]_vars

\* A tick has swapped an Emitter for a Responder and the id is as before.
C17_Witness ==
    /\ IsERTick
    /\ RoleBefore.kind = "Emitter"
    /\ machine.role.kind = "Responder"
    /\ ER_Machine_id(machine) = RoleBefore.id
    /\ RoleBefore.id = 2

\* The messages of q that the inner loop would still pop at time t.
DueCount(q, t) == Cardinality({ i \in 1..Len(q) : q[i].delivery_time <= t })

\* C18: the simulation ends; every pop of the inner loop leaves fewer
\* messages to pop at the current time, because what a pop enqueues is
\* stamped later than the current time; and every pass of the outer loop
\* advances the time by tick_interval up to sim_duration.
C18_Terminates ==
    /\ <>(pc = "done")
    /\ [][/\ delivered' = delivered + 1 =>
               /\ DueCount(message_queue', current_time)
                     < DueCount(message_queue, current_time)
               /\ \A i \in Len(message_queue)..Len(message_queue') :
                     message_queue'[i].delivery_time > current_time
          /\ current_time' # current_time =>
               /\ current_time' = current_time + TickInterval
               /\ current_time < SimDuration]_vars

\* The loop has ended at sim_duration after popping messages.
C18_Witness ==
    /\ pc = "done"
    /\ current_time = SimDuration
    /\ IsSome(last_pop)
    /\ Unwrap(last_pop).at < SimDuration

====
